---- MODULE Spec2Model ----
(***************************************************************************)
(* Model of src/main.py: the Streamlit script that submits a Veo video     *)
(* generation job, polls the long-running operation every 10 seconds while *)
(* showing an estimated progress fraction, downloads the generated video   *)
(* and caches its path in the session state.                               *)
(*                                                                         *)
(* Time is counted in ticks of 1/TicksPerSec second, so that int(...) of   *)
(* a time difference is a real truncation.  Progress fractions are held    *)
(* as numerators over ProgressDen (0.9 = 54/60, 1.0 = 60/60).              *)
(***************************************************************************)
EXTENDS Integers, Sequences, FiniteSets, TLC

\* ---------------------------------------------------------------- bounds
TicksPerSec == 2      \* clock resolution of the model: half seconds
MaxLatency  == 3      \* a status request takes no time or MaxLatency ticks
MaxAssets   == 1      \* a finished job carries 0..MaxAssets videos
MaxRuns     == 2      \* generation flows followed in one session
MaxPolls    == 7      \* loop iterations followed in the first flow
LaterPolls  == 1      \* loop iterations followed in each later flow
LogLen      == 5      \* progress calls of a flow kept in the log
PathClock   == 10     \* latest instant of the two saves of PathSpec

\* ------------------------------------------------------ program constants
PollInterval == 10    \* time.sleep(10)
RampSeconds  == 60    \* elapsed < 60, elapsed / 60
ProgressDen  == 60    \* denominator the fractions are held over
CapNum       == 54    \* 0.9 as a numerator over ProgressDen
FullNum      == 60    \* 1.0 as a numerator over ProgressDen

None == -1            \* Python's None for the integer-valued slots

Min(a, b) == IF a < b THEN a ELSE b

\* round(x) in place of int(x): the nearest whole second
IntSecondsRounded(ticks) == (2 * ticks + TicksPerSec) \div (2 * TicksPerSec)

\* int(x) of a non-negative time difference held in ticks: whole seconds
IntSeconds(ticks) == ticks \div TicksPerSec

\* a file name that stops at the minute: strftime("%Y%m%d_%H%M")
TimestampMinutes(t) == t \div (60 * TicksPerSec)

\* datetime.now().strftime("%Y%m%d_%H%M%S"): the clock cut to whole seconds
Timestamp(t) == t \div TicksPerSec

\* the ramp without its cap: elapsed / 60 shown as it is below 60 seconds
ProgressNoCap(elapsed) ==
    IF elapsed < RampSeconds THEN elapsed ELSE CapNum

\* the bar filled once the ramp is over
ProgressFullAfterRamp(elapsed) ==
    IF elapsed < RampSeconds THEN Min(elapsed, CapNum) ELSE FullNum

\* lines 137-140: the estimated progress, as a numerator over ProgressDen.
\* elapsed / 60 is the numerator elapsed; min(.., 0.9) caps it at CapNum.
Progress(elapsed) ==
    IF elapsed < RampSeconds THEN Min(elapsed, CapNum) ELSE CapNum

\* the loop condition with the negation lost
LoopCondInverted(op) == op.done

\* the loop run on the missing response instead of the done flag
LoopCondNoResponse(op) == op.response = None

\* line 132: the loop condition  while not operation.done
LoopCond(op) == ~op.done

\* the guard without its test of the prompt
FlowGuardNoPrompt(btn, key, pr) == btn /\ key # ""

\* line 89: if generate_btn and api_key and prompt  (strings are truthy
\* when non-empty)
FlowGuard(btn, key, pr) == btn /\ key # "" /\ pr # ""

\* line 73: disabled = not (api_key and prompt)
ButtonDisabled(key, pr) == ~(key # "" /\ pr # "")

VARIABLES
    pc,             \* position of the script run
    api_key,        \* widget values of the current script run
    prompt,
    generate_btn,
    session_keys,   \* keys present in st.session_state
    video_path,     \* st.session_state.video_path (None or a timestamp)
    generating,     \* st.session_state.generating
    operation_id,   \* st.session_state.operation_id (None or a job name)
    client,         \* TRUE once genai.Client(...) returned in this flow
    operation,      \* the local job handle [name, done, response]
    start_time,     \* time.time() taken before the loop
    now,            \* the wall clock, in ticks
    remote,         \* the service: [jobs, doneAt] of the current job
    files,          \* timestamps of the files saved in the temp dir
    writes,         \* for each of these files, the instants it was written at
    raised,         \* the exception travelling to the except clause
    ui,             \* what the run has shown: [error, video, busy]
    events,         \* the first LogLen progress_bar.progress calls of the flow
    bar,            \* the latest progress_bar.progress call of the flow
    reports,        \* done flags the service reported in this flow
    calls,          \* calls made in this flow, by kind
    run             \* generation flows entered so far

vars == <<pc, api_key, prompt, generate_btn, session_keys, video_path,
          generating, operation_id, client, operation, start_time, now,
          remote, files, writes, raised, ui, events, bar, reports, calls, run>>

NoOperation == [name |-> 0, done |-> FALSE, response |-> None]
NoCalls == [clients |-> 0, submits |-> 0, iterations |-> 0, sleeps |-> 0,
            refreshes |-> 0, progress |-> 0, downloads |-> 0, saves |-> 0]
NoEvent == [at |-> 0, fraction |-> None, done |-> FALSE, inloop |-> FALSE]
NoRemote(jobs) == [jobs |-> jobs, doneAt |-> None]
NoUi == [error |-> "", video |-> FALSE, busy |-> FALSE]

Keys    == {"", "k"}
Prompts == {"", "p"}

Init ==
    /\ pc = "idle"
    /\ api_key = ""
    /\ prompt = ""
    /\ generate_btn = FALSE
    /\ session_keys = {}
    /\ video_path = None
    /\ generating = FALSE
    /\ operation_id = None
    /\ client = FALSE
    /\ operation = NoOperation
    /\ start_time = 0
    /\ now = 0
    /\ remote = NoRemote(0)
    /\ files = {}
    /\ writes = << >>
    /\ raised = ""
    /\ ui = NoUi
    /\ events = << >>
    /\ bar = NoEvent
    /\ reports = << >>
    /\ calls = NoCalls
    /\ run = 0

\* ------------------------------------------------------------- helpers
Bump(c, k) == [c EXCEPT ![k] = @ + 1]

\* the time a status request takes to reach the service, in ticks
Latencies == {0, MaxLatency}

\* A job last seen unfinished at instant a can finish at any later instant
\* up to b
Instants(a, b) == (a + 1)..b

\* line 167: video.save(path) at instant t creates the file or overwrites
\* the file of that name; w maps each file name to its writes so far
Written(w, path, t) ==
    [f \in DOMAIN w \cup {path} |->
        IF f = path
           THEN (IF f \in DOMAIN w THEN Append(w[f], t) ELSE <<t>>)
           ELSE w[f]]

\* progress_bar.progress(value): the call is counted (with the loop
\* iteration it belongs to, if any), shown on the bar and kept in the log
\* while the log has room
ShowProgress(value, inloop) ==
    LET e == [at |-> now, fraction |-> value, done |-> operation.done,
              inloop |-> inloop]
    IN  /\ bar' = e
        /\ events' = IF Len(events) < LogLen THEN Append(events, e) ELSE events
        /\ calls' = [calls EXCEPT !.progress = @ + 1,
                                  !.iterations = IF inloop THEN @ + 1 ELSE @]

\* the exception swallowed inside the loop, which goes on polling
RaiseAndContinue(e) ==
    /\ raised' = e
    /\ pc' = "loop"

\* lines 175-176: control enters the except clause with exception e
Raise(e) ==
    /\ raised' = e
    /\ pc' = "except"

\* lines 23-90: one pass over the top of the script with the widget values
\* (btn, key, pr): the session state keys are created when absent, and the
\* generation flow is entered when the guard of line 89 holds.
TopOfScript(btn, key, pr) ==
    /\ generate_btn' = btn
    /\ api_key' = key
    /\ prompt' = pr
    /\ session_keys' = session_keys \cup {"video_path", "generating", "operation_id"}
    /\ video_path' = IF "video_path" \in session_keys THEN video_path ELSE None
    /\ operation_id' = IF "operation_id" \in session_keys THEN operation_id ELSE None
    /\ client' = FALSE
    /\ operation' = NoOperation
    /\ ui' = NoUi
    /\ raised' = ""
    /\ IF FlowGuard(btn, key, pr)
          THEN /\ generating' = TRUE
               /\ pc' = "client"
               /\ run' = run + 1
               /\ events' = << >>
               /\ bar' = NoEvent
               /\ reports' = << >>
               /\ calls' = NoCalls
          ELSE /\ generating' = IF "generating" \in session_keys THEN generating ELSE FALSE
               /\ pc' = "display"
               /\ UNCHANGED <<run, events, bar, reports, calls>>

\* A user interaction starts a script run.  The button reads True only when
\* it was clicked, which the page rendered by the previous run allows only
\* while the button is enabled (line 73); edited text is sent along.
UserRun ==
    /\ pc = "idle"
    /\ \E btn \in BOOLEAN, key \in Keys, pr \in Prompts :
          /\ btn => ~ButtonDisabled(api_key, prompt)
          /\ FlowGuard(btn, key, pr) => run < MaxRuns
          /\ TopOfScript(btn, key, pr)
    /\ UNCHANGED <<start_time, now, remote, files, writes>>

\* line 94: client = genai.Client(api_key=api_key)
CreateClient ==
    /\ pc = "client"
    /\ calls' = Bump(calls, "clients")
    /\ \/ /\ client' = TRUE
          /\ pc' = "submit"
          /\ UNCHANGED raised
       \/ /\ Raise("ClientError")
          /\ UNCHANGED client
    /\ UNCHANGED <<api_key, prompt, generate_btn, session_keys, video_path,
                   generating, operation_id, operation, start_time, now,
                   remote, files, writes, ui, events, bar, reports, run>>

\* lines 97-129: client.models.generate_videos(...), the operation name is
\* stored in the session state, the progress widgets are created and
\* start_time is taken.  The returned handle may already be done.
Submit ==
    /\ pc = "submit"
    /\ calls' = Bump(calls, "submits")
    /\ \/ /\ Raise("SubmitError")
          /\ UNCHANGED <<operation, operation_id, remote, reports, start_time>>
       \/ \E d \in BOOLEAN, r \in None..MaxAssets :
             /\ d \/ r = None
             /\ remote' = [jobs |-> remote.jobs + 1,
                           doneAt |-> IF d THEN now ELSE None]
             /\ operation' = [name |-> remote.jobs + 1, done |-> d, response |-> r]
             /\ operation_id' = remote.jobs + 1
             /\ reports' = <<d>>
             /\ start_time' = now
             /\ pc' = "loop"
             /\ UNCHANGED raised
    /\ UNCHANGED <<api_key, prompt, generate_btn, session_keys, video_path,
                   generating, client, now, files, writes, ui, events, bar, run>>

\* lines 132-143: the loop condition holds; elapsed and the estimated
\* progress are computed and shown, up to the call of time.sleep.
LoopIteration ==
    /\ pc = "loop"
    /\ LoopCond(operation)
    /\ calls.iterations < (IF run = 1 THEN MaxPolls ELSE LaterPolls)
    /\ LET elapsed == IntSeconds(now - start_time)
       IN  ShowProgress(Progress(elapsed), TRUE)
    /\ pc' = "sleep"
    /\ UNCHANGED <<api_key, prompt, generate_btn, session_keys, video_path,
                   generating, operation_id, client, operation, start_time,
                   now, remote, files, writes, raised, ui, reports, run>>

\* a wait of one second in place of the poll interval: time.sleep(1)
SleepOneSecond ==
    /\ pc = "sleep"
    /\ now' = now + TicksPerSec
    /\ calls' = Bump(calls, "sleeps")
    /\ \/ UNCHANGED remote
       \/ /\ remote.doneAt = None
          /\ \E c \in Instants(now, now') : remote' = [remote EXCEPT !.doneAt = c]
    /\ pc' = "refresh"
    /\ UNCHANGED <<api_key, prompt, generate_btn, session_keys, video_path,
                   generating, operation_id, client, operation, start_time,
                   files, writes, raised, ui, events, bar, reports, run>>

\* line 146: time.sleep(10).  The job may finish at any instant of the wait.
Sleep ==
    /\ pc = "sleep"
    /\ now' = now + PollInterval * TicksPerSec
    /\ calls' = Bump(calls, "sleeps")
    /\ \/ UNCHANGED remote
       \/ /\ remote.doneAt = None
          /\ \E c \in Instants(now, now') : remote' = [remote EXCEPT !.doneAt = c]
    /\ pc' = "refresh"
    /\ UNCHANGED <<api_key, prompt, generate_btn, session_keys, video_path,
                   generating, operation_id, client, operation, start_time,
                   files, writes, raised, ui, events, bar, reports, run>>

\* line 147: operation = client.operations.get(operation).  The request
\* reaches the service lat ticks after it is sent and reports the state
\* of the job at that instant; the job may finish while it travels.
Refresh ==
    /\ pc = "refresh"
    /\ calls' = Bump(calls, "refreshes")
    /\ \/ /\ Raise("RefreshError")
          /\ UNCHANGED <<operation, remote, reports, now>>
       \/ \E lat \in Latencies, r \in None..MaxAssets :
             /\ now' = now + lat
             /\ \/ UNCHANGED remote
                \/ /\ remote.doneAt = None
                   /\ \E c \in Instants(now, now') : remote' = [remote EXCEPT !.doneAt = c]
             /\ LET d == remote'.doneAt # None
                IN  /\ d \/ r = None
                    /\ operation' = [name |-> operation.name, done |-> d, response |-> r]
                    /\ reports' = Append(reports, d)
             /\ pc' = "loop"
             /\ UNCHANGED raised
    /\ UNCHANGED <<api_key, prompt, generate_btn, session_keys, video_path,
                   generating, operation_id, client, start_time, files, writes, ui,
                   events, bar, run>>

\* a loop that also gives up once a minute has passed
LoopExitOnTimeout ==
    /\ pc = "loop"
    /\ ~LoopCond(operation) \/ IntSeconds(now - start_time) >= RampSeconds
    /\ ShowProgress(FullNum, FALSE)
    /\ pc' = "download"
    /\ UNCHANGED <<api_key, prompt, generate_btn, session_keys, video_path,
                   generating, operation_id, client, operation, start_time,
                   now, remote, files, writes, raised, ui, reports, run>>

\* lines 132, 149-153: the loop condition fails; the bar is set to 1.0
LoopExit ==
    /\ pc = "loop"
    /\ ~LoopCond(operation)
    /\ ShowProgress(FullNum, FALSE)
    /\ pc' = "download"
    /\ UNCHANGED <<api_key, prompt, generate_btn, session_keys, video_path,
                   generating, operation_id, client, operation, start_time,
                   now, remote, files, writes, raised, ui, reports, run>>

\* the first video taken without the response being looked at
DownloadUnchecked ==
    /\ pc = "download"
    /\ calls' = Bump(calls, "downloads")
    /\ \/ pc' = "save" /\ UNCHANGED raised
       \/ Raise("DownloadError")
    /\ UNCHANGED <<api_key, prompt, generate_btn, session_keys, video_path,
                   generating, operation_id, client, operation, start_time,
                   now, remote, files, writes, ui, events, bar, reports, run>>

\* lines 157-158: generated_videos[0] of the response, then
\* client.files.download.  A missing response or an empty list makes the
\* attribute access or the subscript raise.
Download ==
    /\ pc = "download"
    /\ IF operation.response = None
          THEN Raise("AttributeError") /\ UNCHANGED calls
          ELSE IF operation.response = 0
          THEN Raise("IndexError") /\ UNCHANGED calls
          ELSE /\ calls' = Bump(calls, "downloads")
               /\ \/ pc' = "save" /\ UNCHANGED raised
                  \/ Raise("DownloadError")
    /\ UNCHANGED <<api_key, prompt, generate_btn, session_keys, video_path,
                   generating, operation_id, client, operation, start_time,
                   now, remote, files, writes, ui, events, bar, reports, run>>

\* a cache that is filled once and never replaced
SaveKeepFirst ==
    /\ pc = "save"
    /\ calls' = Bump(calls, "saves")
    /\ \/ /\ files' = files \cup {Timestamp(now)}
          /\ writes' = Written(writes, Timestamp(now), now)
          /\ video_path' = IF video_path = None THEN Timestamp(now) ELSE video_path
          /\ generating' = FALSE
          /\ pc' = "rerun"
          /\ UNCHANGED raised
       \/ /\ Raise("SaveError")
          /\ UNCHANGED <<files, writes, video_path, generating>>
    /\ UNCHANGED <<api_key, prompt, generate_btn, session_keys, operation_id,
                   client, operation, start_time, now, remote, ui, events,
                   bar, reports, run>>

\* lines 161-170: the file name is built from the clock, the video is
\* saved and its path is stored in the session state.
Save ==
    /\ pc = "save"
    /\ calls' = Bump(calls, "saves")
    /\ \/ /\ files' = files \cup {Timestamp(now)}
          /\ writes' = Written(writes, Timestamp(now), now)
          /\ video_path' = Timestamp(now)
          /\ generating' = FALSE
          /\ pc' = "rerun"
          /\ UNCHANGED raised
       \/ /\ Raise("SaveError")
          /\ UNCHANGED <<files, writes, video_path, generating>>
    /\ UNCHANGED <<api_key, prompt, generate_btn, session_keys, operation_id,
                   client, operation, start_time, now, remote, ui, events,
                   bar, reports, run>>

\* lines 172-173: st.rerun() abandons the run and starts the script again
\* with the same widget values and the button reading False.
Rerun ==
    /\ pc = "rerun"
    /\ TopOfScript(FALSE, api_key, prompt)
    /\ UNCHANGED <<start_time, now, remote, files, writes>>

\* an except clause that also forgets the operation name
ExceptCleanup ==
    /\ pc = "except"
    /\ generating' = FALSE
    /\ operation_id' = None
    /\ ui' = [ui EXCEPT !.error = raised]
    /\ pc' = "display"
    /\ UNCHANGED <<api_key, prompt, generate_btn, session_keys, video_path,
                   client, operation, start_time, now, remote,
                   files, writes, raised, events, bar, reports, calls, run>>

\* lines 175-178: except Exception as e
Except ==
    /\ pc = "except"
    /\ generating' = FALSE
    /\ ui' = [ui EXCEPT !.error = raised]
    /\ pc' = "display"
    /\ UNCHANGED <<api_key, prompt, generate_btn, session_keys, video_path,
                   operation_id, client, operation, start_time, now, remote,
                   files, writes, raised, events, bar, reports, calls, run>>

\* lines 181-208: the cached video is shown when its file exists, and the
\* "being generated" note when the generating flag is set.  The script run
\* ends here: its local variables are gone and the page waits for the user.
Display ==
    /\ pc = "display"
    /\ ui' = [ui EXCEPT !.video = (video_path # None /\ video_path \in files),
                        !.busy = generating]
    /\ pc' = "idle"
    /\ client' = FALSE
    /\ operation' = NoOperation
    /\ start_time' = 0
    /\ remote' = NoRemote(remote.jobs)
    /\ raised' = ""
    /\ events' = << >>
    /\ bar' = NoEvent
    /\ reports' = << >>
    /\ calls' = NoCalls
    /\ UNCHANGED <<api_key, prompt, generate_btn, session_keys, video_path,
                   generating, operation_id, now, files, writes, run>>

\* lines 107, 134-153, 156: a widget interaction that arrives while the
\* flow runs makes the next st.* call abandon the run with a rerun request,
\* which is no Exception and passes the except clause: the session state
\* stays as it is and the script starts again with the user's input.
Interrupt ==
    /\ pc \in {"submit", "loop", "download"}
    /\ pc' = "idle"
    /\ client' = FALSE
    /\ operation' = NoOperation
    /\ start_time' = 0
    /\ remote' = NoRemote(remote.jobs)
    /\ raised' = ""
    /\ events' = << >>
    /\ bar' = NoEvent
    /\ reports' = << >>
    /\ calls' = NoCalls
    /\ UNCHANGED <<api_key, prompt, generate_btn, session_keys, video_path,
                   generating, operation_id, now, files, writes, ui, run>>

Next ==
    \/ UserRun
    \/ CreateClient
    \/ Submit
    \/ LoopIteration
    \/ Sleep
    \/ Refresh
    \/ LoopExit
    \/ Download
    \/ Save
    \/ Rerun
    \/ Except
    \/ Display
    \/ Interrupt

Spec == Init /\ [][Next]_vars

\* A flow about to save its video at instant t2 (its handle was done when
\* submit returned), while the temp dir holds the file of an earlier save
\* made at instant t1, by an earlier flow of this session (own) or by
\* another session of the app, which shares the temp dir and the clock.
PathInit ==
    \E t1 \in 0..PathClock, own \in BOOLEAN :
       \E t2 \in t1..PathClock :
          LET job == IF own THEN 2 ELSE 1
              shown == [at |-> t2, fraction |-> FullNum, done |-> TRUE,
                        inloop |-> FALSE]
          IN  /\ pc = "save"
              /\ api_key = "k"
              /\ prompt = "p"
              /\ generate_btn = TRUE
              /\ session_keys = {"video_path", "generating", "operation_id"}
              /\ video_path = IF own THEN Timestamp(t1) ELSE None
              /\ generating = TRUE
              /\ operation_id = job
              /\ client = TRUE
              /\ operation = [name |-> job, done |-> TRUE, response |-> 1]
              /\ start_time = t2
              /\ now = t2
              /\ remote = [jobs |-> job, doneAt |-> t2]
              /\ files = {Timestamp(t1)}
              /\ writes = Written(<< >>, Timestamp(t1), t1)
              /\ raised = ""
              /\ ui = NoUi
              /\ events = <<shown>>
              /\ bar = shown
              /\ reports = <<TRUE>>
              /\ calls = [NoCalls EXCEPT !.clients = 1, !.submits = 1,
                                         !.progress = 1, !.downloads = 1]
              /\ run = job

PathSpec == PathInit /\ [][Next]_vars

\* the steps the script takes by itself; the user's are UserRun, Interrupt
ScriptStep ==
    \/ CreateClient
    \/ Submit
    \/ LoopIteration
    \/ Sleep
    \/ Refresh
    \/ LoopExit
    \/ Download
    \/ Save
    \/ Rerun
    \/ Except
    \/ Display

\* A script run is one thread that executes statement after statement:
\* a step of the script that can be taken is taken.  Nothing makes the
\* user act.
FairSpec == Init /\ [][Next]_vars /\ WF_vars(ScriptStep)

TypeOK ==
    /\ pc \in {"idle", "client", "submit", "loop", "sleep", "refresh",
               "download", "save", "rerun", "except", "display"}
    /\ now \in Nat
    /\ start_time \in 0..now
    /\ video_path \in {None} \cup 0..Timestamp(now)
    /\ operation_id \in {None} \cup 1..remote.jobs
    /\ Len(events) <= LogLen
    /\ generating \in BOOLEAN
    /\ DOMAIN writes = files
    /\ run \in 0..MaxRuns

\* ------------------------------------------------------------ properties
Ceil(a, b) == (a + b - 1) \div b

\* the positions after the polling loop, on the success path
AfterLoop == {"download", "save", "rerun"}

\* the progress calls of the flow that the state still holds
Shown == {events[i] : i \in 1..Len(events)} \cup (IF bar = NoEvent THEN {} ELSE {bar})

Fractions == [i \in 1..Len(events) |-> events[i].fraction]

\* whole seconds from start_time to the instant of the progress call e
ElapsedAt(e) == (e.at - start_time) \div TicksPerSec

\* C1: a progress call made inside the loop shows elapsed/60 capped at 0.9
\* while elapsed < 60 (60 * fraction = min(elapsed, 54)) and 0.9 from 60
\* seconds on; the call made after the loop shows 1.0, and it is the only
\* call outside the loop.
C1_FractionOfElapsed ==
    /\ \A e \in Shown :
          IF e.inloop
             THEN /\ ElapsedAt(e) < 60 =>
                        60 * e.fraction = ProgressDen * Min(ElapsedAt(e), 54)
                  /\ ElapsedAt(e) >= 60 => 10 * e.fraction = 9 * ProgressDen
             ELSE e.fraction = ProgressDen
    /\ calls.progress - calls.iterations \in {0, 1}
    /\ pc \in AfterLoop => ~bar.inloop /\ calls.progress = calls.iterations + 1

\* C1 witness: the ramp is clipped (55 <= elapsed < 60) inside the loop
C1_Witness ==
    /\ pc = "sleep"
    /\ bar.inloop
    /\ ElapsedAt(bar) > 54
    /\ ElapsedAt(bar) < 60

\* C2: on every position after the polling loop the handle is done.
C2_DoneAfterLoop == pc \in AfterLoop => operation.done

\* C2 witness: the loop was left after polling
C2_Witness == pc = "download" /\ calls.iterations >= 2

\* each loop iteration makes one wait and then one refresh
OneWaitThenOneRefresh ==
    /\ pc = "sleep" =>
          calls.sleeps = calls.iterations - 1 /\ calls.refreshes = calls.iterations - 1
    /\ pc = "refresh" =>
          calls.sleeps = calls.iterations /\ calls.refreshes = calls.iterations - 1
    /\ pc \notin {"sleep", "refresh"} =>
          calls.sleeps = calls.iterations /\ calls.refreshes = calls.iterations

\* ticks from start_time to the instant the job finished
TimeToCompletion == remote.doneAt - start_time

\* C3 as stated: one wait then one refresh per iteration, and the loop is
\* left after exactly ceil(time_to_completion / poll_interval) iterations.
C3_Original ==
    /\ OneWaitThenOneRefresh
    /\ pc = "download" =>
          calls.iterations = Ceil(TimeToCompletion, 10 * TicksPerSec)

\* C3 amended: one wait then one refresh per iteration; the loop is left
\* after at most ceil(time_to_completion / poll_interval) iterations, and
\* after exactly that many when the refresh calls took no time.
C3_IterationsAtMostCeil ==
    /\ OneWaitThenOneRefresh
    /\ pc = "download" =>
          /\ calls.iterations <= Ceil(TimeToCompletion, 10 * TicksPerSec)
          /\ now - start_time = calls.iterations * 10 * TicksPerSec =>
                calls.iterations = Ceil(TimeToCompletion, 10 * TicksPerSec)

\* C3 witness: the loop is left one iteration early because the refresh
\* calls took time
C3_Witness ==
    /\ pc = "download"
    /\ calls.iterations >= 2
    /\ calls.iterations < Ceil(TimeToCompletion, 10 * TicksPerSec)

\* C4: once a refresh call has raised, the flow is in the except clause or
\* past it, the bar was never set to 1.0, nothing was downloaded or saved,
\* and no call, progress event or change of the cached path follows.
C4_RefreshErrorAborts ==
    /\ [](raised = "RefreshError" =>
              /\ pc \in {"except", "display"}
              /\ bar.inloop /\ bar.fraction # FullNum
              /\ calls.downloads = 0 /\ calls.saves = 0
              /\ calls.refreshes = calls.iterations
              /\ calls.sleeps = calls.iterations
              /\ calls.progress = calls.iterations)
    /\ [][raised = "RefreshError" /\ raised' = "RefreshError" =>
              /\ calls' = calls /\ events' = events /\ bar' = bar
              /\ video_path' = video_path /\ files' = files /\ now' = now]_vars

\* C4 witness: the second refresh of a flow raised
C4_Witness == raised = "RefreshError" /\ calls.refreshes = 2 /\ pc = "display"

\* C5: a fraction shown while the handle is not done is at most 0.9, and
\* 1.0 is shown only when the last status report said done.
C5_NeverFullWhileRunning ==
    \A e \in Shown :
       /\ ~e.done => 10 * e.fraction <= 9 * ProgressDen
       /\ e.fraction = ProgressDen =>
             e.done /\ reports # << >> /\ reports[Len(reports)]

\* C5 witness: the bar stands at 0.9 while the job is still running
C5_Witness ==
    /\ pc = "sleep"
    /\ ~operation.done
    /\ 10 * bar.fraction = 9 * ProgressDen
    /\ ElapsedAt(bar) >= 60

\* C6 as stated: after three reports of done = false and one of done =
\* true the flow has made exactly 4 progress calls, with fractions 10/60,
\* 20/60, 30/60 and 1.0.
C6_Original ==
    (pc \in AfterLoop /\ reports = <<FALSE, FALSE, FALSE, TRUE>>) =>
        calls.progress = 4 /\ Fractions = <<10, 20, 30, 60>>

\* C6 amended: the first progress call is made before any wait and shows
\* 0.  When the submit response and two refreshes report done = false and
\* the third refresh done = true, exactly 4 calls are made: 0, elapsed/60
\* with elapsed >= 10, elapsed/60 with elapsed >= 20 (10/60 and 20/60 when
\* the refreshes took no time), then 1.0.  When three refreshes after the
\* submit report done = false, exactly 5 calls are made, the fourth with
\* elapsed >= 30 (0, 10/60, 20/60, 30/60, 1.0 when the refreshes took no
\* time).  Once the video is saved, its path is recorded.
C6_ScenarioEvents ==
    /\ (pc \in AfterLoop /\ reports = <<FALSE, FALSE, FALSE, TRUE>>) =>
          /\ calls.progress = 4 /\ Len(events) = 4
          /\ Fractions[1] = 0
          /\ Fractions[2] >= 10 /\ Fractions[2] = ElapsedAt(events[2])
          /\ Fractions[3] >= 20 /\ Fractions[3] = ElapsedAt(events[3])
          /\ Fractions[4] = ProgressDen
          /\ now - start_time = 30 * TicksPerSec =>
                Fractions = <<0, 10, 20, 60>>
          /\ pc = "rerun" =>
                video_path = Timestamp(now) /\ video_path \in files
    /\ (pc \in AfterLoop /\ reports = <<FALSE, FALSE, FALSE, FALSE, TRUE>>) =>
          /\ calls.progress = 5 /\ Len(events) = 5
          /\ Fractions[1] = 0
          /\ Fractions[4] >= 30 /\ Fractions[4] = ElapsedAt(events[4])
          /\ Fractions[5] = ProgressDen
          /\ now - start_time = 40 * TicksPerSec =>
                Fractions = <<0, 10, 20, 30, 60>>
          /\ pc = "rerun" =>
                video_path = Timestamp(now) /\ video_path \in files

\* C6 witness: the scenario ran without delay and the video was recorded
C6_Witness ==
    /\ pc = "rerun"
    /\ reports = <<FALSE, FALSE, FALSE, TRUE>>
    /\ Fractions = <<0, 10, 20, 60>>
    /\ operation.response = 1

\* C7: a done handle with zero videos ends the flow with the dedicated
\* EmptyResultError and without a recorded path.
C7_EmptyResultError ==
    (operation.done /\ operation.response = 0 /\ raised # "") =>
        raised = "EmptyResultError" /\ calls.saves = 0

\* C8 as stated: a run with an empty prompt or credential creates no
\* client, sends no request, and ends with a validation error.
C8_Original ==
    (pc = "display" /\ (prompt = "" \/ api_key = "")) =>
        /\ calls.clients = 0 /\ calls.submits = 0 /\ calls.refreshes = 0
        /\ ui.error = "ValidationError"

\* C8 amended: a run with an empty prompt or credential never enters the
\* generation flow: no client is created, no request is sent, and no error
\* is raised or shown.
C8_EmptyInputSkipsFlow ==
    (prompt = "" \/ api_key = "") =>
        /\ pc \in {"idle", "display"}
        /\ ~client
        /\ calls = NoCalls
        /\ raised = "" /\ ui.error = ""

\* C8 witness: a click arrives together with an emptied prompt
C8_Witness == pc = "display" /\ generate_btn /\ prompt = "" /\ api_key # ""

\* C9: the cached path changes only in the save step of a flow whose
\* handle is done with at least one video that was downloaded, to the path
\* of the saved file; a flow that has raised changes it no more, and a
\* flow past the save step holds a done handle and no exception.
C9_PathOnlyFromDoneJob ==
    /\ [][video_path' # video_path =>
              /\ pc = "save" /\ raised = "" /\ raised' = ""
              /\ operation.done /\ operation.response >= 1
              /\ calls.downloads = 1
              /\ video_path' \in files' /\ video_path' # None]_vars
    /\ [][raised # "" /\ raised' # "" => video_path' = video_path]_vars
    /\ [](pc = "rerun" => operation.done /\ operation.response >= 1 /\ raised = ""
                           /\ video_path = Timestamp(now))
    /\ [](raised # "" => calls.saves = 0 \/ raised = "SaveError")

\* C9 witness: a polled job was saved and its path recorded
C9_Witness ==
    /\ pc = "rerun"
    /\ calls.iterations >= 1
    /\ video_path = Timestamp(now)

\* the exceptions the steps of the flow raise
Errors == {"ClientError", "SubmitError", "RefreshError", "AttributeError",
           "IndexError", "DownloadError", "SaveError"}

\* C10: an exception of any step takes the flow to the except clause and
\* from there to the display section with its message shown; after it no
\* call is made, and operation_id keeps the value it had.
C10_CaughtAtTopLevel ==
    /\ [](raised # "" =>
              /\ raised \in Errors
              /\ pc \in {"except", "display"}
              /\ pc = "display" => ui.error = raised)
    /\ [][raised = "" /\ raised' # "" =>
              pc' = "except" /\ operation_id' = operation_id]_vars
    /\ [][raised # "" /\ raised' # "" =>
              /\ calls' = calls /\ remote' = remote
              /\ operation_id' = operation_id
              /\ pc = "except" /\ pc' = "display"]_vars

\* C10 witness: a refresh failed in a flow whose job was submitted, and
\* the session still holds that job's name in the display section
C10_Witness ==
    /\ pc = "display"
    /\ raised = "RefreshError"
    /\ ui.error = "RefreshError"
    /\ operation_id = remote.jobs
    /\ operation_id # None

\* C11: within a flow only the last status report can say done; a handle
\* that is done is neither waited on nor refreshed again and stays done;
\* and a handle that is done when submit returns goes through no loop
\* iteration, no wait and no refresh, the only progress call being 1.0.
C11_NoRefreshAfterDone ==
    /\ [](\A i \in 1..(Len(reports) - 1) : ~reports[i])
    /\ [](reports # << >> /\ reports[1] =>
              /\ calls.iterations = 0 /\ calls.sleeps = 0 /\ calls.refreshes = 0
              /\ calls.progress <= 1
              /\ \A e \in Shown : ~e.inloop /\ e.fraction = ProgressDen)
    /\ [][operation.done =>
              /\ calls'.sleeps <= calls.sleeps
              /\ calls'.refreshes <= calls.refreshes
              /\ calls'.iterations <= calls.iterations
              /\ operation'.name = operation.name => operation'.done]_vars

\* C11 witness: the handle was done when submit returned and the bar went
\* straight to 1.0
C11_Witness ==
    /\ pc = "download"
    /\ reports = <<TRUE>>
    /\ calls.sleeps = 0 /\ calls.refreshes = 0
    /\ calls.progress = 1 /\ bar.fraction = ProgressDen

\* the positions of the polling loop
InLoop == pc \in {"loop", "sleep", "refresh"}

\* C12 as stated: the loop is left only with a handle seen done or by an
\* exception of refresh, and once the service has the job done the flow
\* gets to the fetch step unless a refresh fails.
C12_Original ==
    /\ [][InLoop /\ ~InLoop' =>
              \/ pc = "loop" /\ pc' = "download" /\ operation.done
              \/ pc = "refresh" /\ pc' = "except" /\ raised' = "RefreshError"]_vars
    /\ (InLoop /\ remote.doneAt # None) ~>
              (pc = "download" \/ raised = "RefreshError")

\* C12 amended: the loop has no maximum wait.  It is left only with a
\* handle seen done, by an exception of refresh, or because the user's
\* interaction made the run be abandoned; once the service has the job
\* done, the flow gets to the fetch step unless a refresh fails or the run
\* is abandoned.
C12_NoMaximumWait ==
    /\ [][InLoop /\ ~InLoop' =>
              \/ pc = "loop" /\ pc' = "download" /\ operation.done
              \/ pc = "refresh" /\ pc' = "except" /\ raised' = "RefreshError"
              \/ pc = "loop" /\ pc' = "idle" /\ generating' = generating]_vars
    /\ (InLoop /\ remote.doneAt # None) ~>
              (pc = "download" \/ raised = "RefreshError" \/ pc = "idle")

\* C12 witness: the loop went on past the minute of the ramp and was left
\* for the fetch step only when done was seen
C12_Witness ==
    /\ pc = "download"
    /\ operation.done
    /\ calls.iterations >= 7
    /\ now - start_time >= 70 * TicksPerSec

\* the instant of the latest write of file f
LastWrite(f) == writes[f][Len(writes[f])]

\* the file written last, when there is one
LatestFile == CHOOSE f \in files : \A g \in files : LastWrite(g) <= LastWrite(f)

\* a step in which a flow saves its video
SavedStep == pc = "save" /\ pc' = "rerun"

\* C13: the cached path is None while no flow has saved a video and the
\* path of the latest save afterwards; a save sets it to the new path and
\* keeps every older file; every other step, the failure of a flow
\* included, leaves it as it is.
C13_LastSuccessWins ==
    /\ [](video_path = IF files = {} THEN None ELSE LatestFile)
    /\ [][SavedStep =>
              /\ video_path' = now \div TicksPerSec
              /\ files' = files \cup {video_path'}
              /\ writes'[video_path'][Len(writes'[video_path'])] = now
              /\ \A f \in files \ {video_path'} : writes'[f] = writes[f]]_vars
    /\ [][~SavedStep => video_path' = video_path /\ files' = files]_vars
    /\ [][raised' # "" => video_path' = video_path]_vars

\* C13 witness: a second flow has saved its video; the cached path is the
\* new one and the file of the first flow is still there
C13_Witness ==
    /\ pc = "rerun"
    /\ run = 2
    /\ video_path = Timestamp(now)
    /\ \E f \in files : f # video_path /\ LastWrite(f) < now

\* the clock second an instant falls in
ClockSecond(t) == t \div TicksPerSec

\* C14: the name of a saved file is the clock second of the save and
\* nothing else: two saves, of one session or of two, have the same path
\* exactly when they fall in the same clock second, and then the later
\* save is a second write of the same file.
C14_PathIsClockSecond ==
    /\ \A f \in files : \A i \in 1..Len(writes[f]) :
          f = ClockSecond(writes[f][i])
    /\ \A f \in files, g \in files :
          \A i \in 1..Len(writes[f]), j \in 1..Len(writes[g]) :
             (f = g) <=> (ClockSecond(writes[f][i]) = ClockSecond(writes[g][j]))
    /\ video_path # None => video_path \in files

\* C14 witness: this session's only save came later in the second in which
\* another session had saved, and wrote over that file
C14_Witness ==
    /\ pc = "rerun"
    /\ run = 1
    /\ files = {video_path}
    /\ Len(writes[video_path]) = 2
    /\ writes[video_path][1] < writes[video_path][2]

\* C15: the status check at the end of a script run never finds the
\* generating flag set, so the "being generated" note is never shown.
C15_GeneratingClearedAfterFlow ==
    /\ pc = "display" => ~generating
    /\ ~ui.busy

====
